---- MODULE Spec2Model ----
(***************************************************************************)
(* pymixconsole: the biquad IIRfilter (components/irrfilter.py), the       *)
(* Channel (channel.py) and the Bus (bus.py), as state machines.           *)
(*                                                                         *)
(* Floating-point numbers are fixed-point integers in units of 1/Scale.    *)
(* A Python attribute that has not been assigned yet is absent from the    *)
(* set attrs and holds a placeholder (0 or an empty sequence).             *)
(***************************************************************************)
EXTENDS Integers, Sequences, FiniteSets, TLC

VARIABLES
    \* ---- IIRfilter instance
    G, Q, fc, rate, filter_type,   \* the five name-mangled parameters
    b, a,                          \* coefficient vectors [b0,b1,b2], [a0,a1,a2]
    zi,                            \* filter memory: [ndim, v], v[k][c], k in 1..2
    n_channels, passband_gain,
    attrs,                         \* the attributes assigned so far
    fpc,                           \* "new", "ok" (constructed), "failed" (__init__ raised)
    ferr,                          \* exception raised by the last filter operation
    fop,                           \* the last filter operation
    fcalls,                        \* number of filter operations so far
    fed, outp, zi0,                \* history: blocks fed / outputs returned since
                                   \* the parameters last changed, and zi at that time
    \* ---- Channel instance
    pre_processors, processors, post_processors,   \* the three ProcessorLists
    ch_calls,                      \* processor calls made by the last Channel operation
    ch_out,                        \* buffer returned by the last Channel.process
    ch_n,                          \* calls received so far, per processor and method
    cop,                           \* the last Channel operation and its argument
    ccalls,                        \* number of Channel operations so far
    \* ---- Bus instance
    bpc,                           \* "new", "ok" (constructed)
    n_inputs, master, sends,
    bus_processors,                \* the Bus's ProcessorList
    sends_arg,                     \* the sends argument __init__ was given
    bus_calls,                     \* processor calls made by the last Bus operation
    bus_block,                     \* block given to the last Bus.process
    bus_buffer,                    \* mixdown buffer of the last Bus.process
    bus_out,                       \* buffer returned by the last Bus.process
    berr,                          \* exception raised by the last Bus operation
    bop,                           \* the last Bus operation and its argument
    bcalls                         \* number of Bus operations so far

filterVars == <<G, Q, fc, rate, filter_type, b, a, zi, n_channels, passband_gain,
                attrs, fpc, ferr, fop, fcalls, fed, outp, zi0>>
chanVars == <<pre_processors, processors, post_processors, ch_calls, ch_out,
              ch_n, cop, ccalls>>
busVars == <<bpc, n_inputs, master, sends, bus_processors, sends_arg, bus_calls,
             bus_block, bus_buffer, bus_out, berr, bop, bcalls>>
vars == <<filterVars, chanVars, busVars>>

(***************************************************************************)
(* Bounds of the model.                                                    *)
(***************************************************************************)
MaxFilterCalls == 2      \* IIRfilter operations after construction (FilterSpec)
MaxFed == 3              \* samples fed between two parameter changes (StreamSpec)
MaxBlock == 2            \* samples per apply_filter block (StreamSpec)
MaxChannelCalls == 4     \* Channel operations
MaxBusCalls == 2         \* Bus operations
MaxInputs == 2           \* Bus n_inputs

\* Fixed-point unit: the real number x is the integer x * Scale.
Scale == 10 * 10 * 10
Mul(x, y) == (x * y) \div Scale
Div(x, y) == (x * Scale) \div y

\* Input domains.
Gains == {0, 20}                 \* G, dB
Qs == {1, 2}                     \* Q
Freqs == {1, 2}                  \* fc
Rates == {0, 8}                  \* rate; 0 makes fc / rate raise
KnownTypes == {"high_shelf", "low_shelf", "high_pass", "low_pass", "peaking",
               "notch", "high_shelf_DeMan", "high_pass_DeMan"}
FilterTypes == KnownTypes \cup {"band_pass"}
PassbandGains == {1, 2}
ChannelCounts == {1, 2}
Amplitudes == {0, Scale}

(***************************************************************************)
(* numpy / Python arithmetic used by generate_coefficients, on the input   *)
(* domains above.                                                          *)
(***************************************************************************)
\* 10 ** (g / 40.0)
Pow10_40(g) == CASE g = 0 -> 1000 [] g = 20 -> 3162 [] g = 40 -> 10000
\* np.power(10.0, g / 20.0)
Pow10_20(g) == CASE g = 0 -> 1000 [] g = 20 -> 10000 [] g = 40 -> 100000
\* np.power(Vh, 0.499666774155), keyed on g where Vh = 10 ** (g / 20)
PowVb(g) == CASE g = 0 -> 1000 [] g = 20 -> 3160 [] g = 40 -> 9985

RECURSIVE ISqrt(_, _, _)
ISqrt(lo, hi, v) ==
    IF lo >= hi THEN lo
    ELSE LET mid == (lo + hi + 1) \div 2
         IN IF mid * mid <= v THEN ISqrt(mid, hi, v) ELSE ISqrt(lo, mid - 1, v)
\* np.sqrt(x)
Sqrt(x) == ISqrt(0, IF x < Scale THEN Scale ELSE x, x * Scale)

\* The angle 2*pi*f/r in sixteenths of a turn (f / r is a multiple of 1/16 here).
Sixteenths(f, r) == (16 * f) \div r
CosTab == <<1000, 924, 707, 383, 0, -383, -707, -924, -1000>>
SinTab == <<0, 383, 707, 924, 1000, 924, 707, 383, 0>>
TanHalfTab == <<0, 199, 414, 668, 1000, 1497, 2414, 5027>>
\* np.cos(w0), np.sin(w0), np.tan(w0 / 2) for w0 = 2*pi*k/16
Cos(k) == CosTab[k + 1]
Sin(k) == SinTab[k + 1]
TanHalf(k) == TanHalfTab[k + 1]

one == Scale
two == 2 * Scale

\* np.array([b0, b1, b2]) / a0, np.array([a0, a1, a2]) / a0
Normalized(b0, b1, b2, a0, a1, a2) ==
    [err |-> "none",
     b |-> <<Div(b0, a0), Div(b1, a0), Div(b2, a0)>>,
     a |-> <<Div(a0, a0), Div(a1, a0), Div(a2, a0)>>]

Raised(e) == [err |-> e, b |-> <<>>, a |-> <<>>]

\* The filter_type branches of generate_coefficients, for a nonzero rate
biquad(g, q, f, r, t) ==
    LET A == Pow10_40(g)
        k == Sixteenths(f, r)
        cw == Cos(k)
        alpha == Div(Sin(k), 2 * q * Scale)
        sA == Sqrt(A)
        sAa == 2 * Mul(sA, alpha)
        K == TanHalf(k)
        KK == Mul(K, K)
        KQ == Div(K, q * Scale)
        Vh == Pow10_20(g)
        Vb == PowVb(g)
    IN CASE t = "high_shelf" ->
              Normalized(Mul(A, (A + one) + Mul(A - one, cw) + sAa),
                         -2 * Mul(A, (A - one) + Mul(A + one, cw)),
                         Mul(A, (A + one) + Mul(A - one, cw) - sAa),
                         (A + one) - Mul(A - one, cw) + sAa,
                         2 * ((A - one) - Mul(A + one, cw)),
                         (A + one) - Mul(A - one, cw) - sAa)
         [] t = "low_shelf" ->
              Normalized(Mul(A, (A + one) - Mul(A - one, cw) + sAa),
                         2 * Mul(A, (A - one) - Mul(A + one, cw)),
                         Mul(A, (A + one) - Mul(A - one, cw) - sAa),
                         (A + one) + Mul(A - one, cw) + sAa,
                         -2 * ((A - one) + Mul(A + one, cw)),
                         (A + one) + Mul(A - one, cw) - sAa)
         [] t = "high_pass" ->
              Normalized((one + cw) \div 2, -(one + cw), (one + cw) \div 2,
                         one + alpha, -2 * cw, one - alpha)
         [] t = "low_pass" ->
              Normalized((one - cw) \div 2, one - cw, (one - cw) \div 2,
                         one + alpha, -2 * cw, one - alpha)
         [] t = "peaking" ->
              Normalized(one + Mul(alpha, A), -2 * cw, one - Mul(alpha, A),
                         one + Div(alpha, A), -2 * cw, one - Div(alpha, A))
         [] t = "notch" ->
              Normalized(one, -2 * cw, one, one + alpha, -2 * cw, one - alpha)
         [] t = "high_shelf_DeMan" ->
              LET a0_ == one + KQ + KK
              IN Normalized(Div(Vh + Mul(Vb, KQ) + KK, a0_),
                            Div(2 * (KK - Vh), a0_),
                            Div(Vh - Mul(Vb, KQ) + KK, a0_),
                            one,
                            Div(2 * (KK - one), a0_),
                            Div(one - KQ + KK, a0_))
         [] t = "high_pass_DeMan" ->
              Normalized(one, -two, one,
                         one,
                         Div(2 * (KK - one), one + KQ + KK),
                         Div(one - KQ + KK, one + KQ + KK))
         [] OTHER -> Raised("ValueError")

\* A generate_coefficients that falls back to the notch for an unknown filter_type.
generate_coefficients_lenient(g, q, f, r, t) ==
    IF r = 0 THEN Raised("ZeroDivisionError")
    ELSE biquad(g, q, f, r, IF t \in KnownTypes THEN t ELSE "notch")

\* IIRfilter.generate_coefficients: the vectors it stores, or the exception it
\* raises. w0 = 2 pi (fc / rate) is computed before filter_type is looked at.
generate_coefficients(g, q, f, r, t) ==
    IF r = 0 THEN Raised("ZeroDivisionError")
    ELSE biquad(g, q, f, r, t)

Max(x, y) == IF x >= y THEN x ELSE y

\* IIRfilter.reset_state: np.zeros of max(len(a), len(b)) - 1 rows, one axis when
\* n_channels == 1 and two otherwise. The model keeps v two-dimensional and
\* records in ndim how many axes numpy's array has.
reset_state(n, bb, aa) ==
    [ndim |-> IF n = 1 THEN 1 ELSE 2,
     v |-> [k \in 1..(Max(Len(aa), Len(bb)) - 1) |-> [c \in 1..n |-> 0]]]

(***************************************************************************)
(* scipy.signal.lfilter(b, a, x, axis=0, zi): direct form II transposed,   *)
(* one channel at a time, coefficients normalized by a[0].                 *)
(***************************************************************************)
RECURSIVE Lfilter1(_, _, _, _)
Lfilter1(bb, aa, xs, z) ==
    IF xs = <<>> THEN [y |-> <<>>, zf |-> z]
    ELSE LET x == Head(xs)
             y == Mul(Div(bb[1], aa[1]), x) + z[1]
             z1 == Mul(Div(bb[2], aa[1]), x) - Mul(Div(aa[2], aa[1]), y) + z[2]
             z2 == Mul(Div(bb[3], aa[1]), x) - Mul(Div(aa[3], aa[1]), y)
             rest == Lfilter1(bb, aa, Tail(xs), <<z1, z2>>)
         IN [y |-> <<y>> \o rest.y, zf |-> rest.zf]

lfilter(bb, aa, data, z) ==
    LET nc == Len(z[1])
        col == [c \in 1..nc |->
                  Lfilter1(bb, aa, [n \in 1..Len(data) |-> data[n][c]],
                           <<z[1][c], z[2][c]>>)]
    IN [y |-> [n \in 1..Len(data) |-> [c \in 1..nc |-> col[c].y[n]]],
        zf |-> [k \in 1..2 |-> [c \in 1..nc |-> col[c].zf[k]]]]

\* passband_gain * y
Scaled(pg, y) == [n \in 1..Len(y) |-> [c \in 1..Len(y[n]) |-> pg * y[n][c]]]

\* Audio blocks of n channels and 1..l samples.
Rows(n) == [1..n -> Amplitudes]
Blocks(n, l) == UNION {[1..m -> Rows(n)] : m \in 1..l}

AllAttrs == {"G", "Q", "fc", "rate", "filter_type", "b", "a", "n_channels", "zi",
             "passband_gain"}
ParamAttrs == {"G", "Q", "fc", "rate", "filter_type"}

(***************************************************************************)
(* IIRfilter operations.                                                   *)
(***************************************************************************)
\* IIRfilter.__init__
IIRfilter_init(g, q, f, r, t, pg, n) ==
    /\ fpc = "new"
    /\ G' = g /\ Q' = q /\ fc' = f /\ rate' = r /\ filter_type' = t
    /\ LET res == generate_coefficients(g, q, f, r, t)
       IN IF res.err # "none"
          THEN /\ fpc' = "failed" /\ ferr' = res.err
               /\ attrs' = ParamAttrs
               /\ UNCHANGED <<b, a, zi, n_channels, passband_gain, zi0>>
          ELSE /\ fpc' = "ok" /\ ferr' = "none"
               /\ b' = res.b /\ a' = res.a
               /\ n_channels' = n
               /\ zi' = reset_state(n, res.b, res.a)
               /\ passband_gain' = pg
               /\ attrs' = AllAttrs
               /\ zi0' = zi'
    /\ fop' = "__init__" /\ fcalls' = 0
    /\ fed' = <<>> /\ outp' = <<>>
    /\ UNCHANGED <<chanVars, busVars>>

\* A setter tail that also clears the filter memory.
Recompute_clearing(res, name) ==
    /\ IF res.err # "none"
       THEN /\ ferr' = res.err /\ UNCHANGED <<b, a>>
       ELSE /\ ferr' = "none" /\ b' = res.b /\ a' = res.a
    /\ zi' = reset_state(n_channels, b', a')
    /\ fop' = name /\ fcalls' = fcalls + 1
    /\ fed' = <<>> /\ outp' = <<>> /\ zi0' = zi'
    /\ UNCHANGED <<n_channels, passband_gain, attrs, fpc>>
    /\ UNCHANGED <<chanVars, busVars>>

\* The tail of the five parameter setters: self.generate_coefficients(), which
\* stores b and a or raises; the filter memory is not touched.
Recompute(res, name) ==
    /\ IF res.err # "none"
       THEN /\ ferr' = res.err /\ UNCHANGED <<b, a>>
       ELSE /\ ferr' = "none" /\ b' = res.b /\ a' = res.a
    /\ fop' = name /\ fcalls' = fcalls + 1
    /\ fed' = <<>> /\ outp' = <<>> /\ zi0' = zi
    /\ UNCHANGED <<zi, n_channels, passband_gain, attrs, fpc>>
    /\ UNCHANGED <<chanVars, busVars>>

SetterEnabled == fpc = "ok" /\ fcalls < MaxFilterCalls

\* G.setter
set_G(v) ==
    /\ SetterEnabled
    /\ G' = v /\ UNCHANGED <<Q, fc, rate, filter_type>>
    /\ Recompute(generate_coefficients(v, Q, fc, rate, filter_type), "G")

\* Q.setter
set_Q(v) ==
    /\ SetterEnabled
    /\ Q' = v /\ UNCHANGED <<G, fc, rate, filter_type>>
    /\ Recompute(generate_coefficients(G, v, fc, rate, filter_type), "Q")

\* fc.setter
set_fc(v) ==
    /\ SetterEnabled
    /\ fc' = v /\ UNCHANGED <<G, Q, rate, filter_type>>
    /\ Recompute(generate_coefficients(G, Q, v, rate, filter_type), "fc")

\* rate.setter
set_rate(v) ==
    /\ SetterEnabled
    /\ rate' = v /\ UNCHANGED <<G, Q, fc, filter_type>>
    /\ Recompute(generate_coefficients(G, Q, fc, v, filter_type), "rate")

\* filter_type.setter
set_filter_type(v) ==
    /\ SetterEnabled
    /\ filter_type' = v /\ UNCHANGED <<G, Q, fc, rate>>
    /\ Recompute(generate_coefficients(G, Q, fc, rate, v), "filter_type")

\* n_channels.setter
set_n_channels(n) ==
    /\ SetterEnabled
    /\ n_channels' = n
    /\ zi' = reset_state(n, b, a)
    /\ fop' = "n_channels" /\ fcalls' = fcalls + 1 /\ ferr' = "none"
    /\ fed' = <<>> /\ outp' = <<>> /\ zi0' = zi'
    /\ UNCHANGED <<G, Q, fc, rate, filter_type, b, a, passband_gain, attrs, fpc>>
    /\ UNCHANGED <<chanVars, busVars>>

\* An apply_filter that drops the final state lfilter returns.
apply_filter_stateless(data) ==
    /\ fpc = "ok"
    /\ outp' = outp \o Scaled(passband_gain, lfilter(b, a, data, zi.v).y)
    /\ fed' = fed \o data
    /\ fop' = "apply_filter" /\ fcalls' = fcalls + 1 /\ ferr' = "none"
    /\ UNCHANGED <<G, Q, fc, rate, filter_type, b, a, zi, n_channels, passband_gain,
                   attrs, fpc, zi0>>
    /\ UNCHANGED <<chanVars, busVars>>

\* IIRfilter.apply_filter on a block laid out like the filter memory
apply_filter(data) ==
    /\ fpc = "ok"
    /\ LET r == lfilter(b, a, data, zi.v)
       IN /\ zi' = [ndim |-> zi.ndim, v |-> r.zf]
          /\ outp' = outp \o Scaled(passband_gain, r.y)
    /\ fed' = fed \o data
    /\ fop' = "apply_filter" /\ fcalls' = fcalls + 1 /\ ferr' = "none"
    /\ UNCHANGED <<G, Q, fc, rate, filter_type, b, a, n_channels, passband_gain,
                   attrs, fpc, zi0>>
    /\ UNCHANGED <<chanVars, busVars>>

FilterInit ==
    /\ G = 0 /\ Q = 0 /\ fc = 0 /\ rate = 0 /\ filter_type = ""
    /\ b = <<>> /\ a = <<>>
    /\ zi = [ndim |-> 0, v |-> <<>>] /\ zi0 = [ndim |-> 0, v |-> <<>>]
    /\ n_channels = 0 /\ passband_gain = 0
    /\ attrs = {} /\ fpc = "new" /\ ferr = "none" /\ fop = "none" /\ fcalls = 0
    /\ fed = <<>> /\ outp = <<>>

Construct ==
    \E g \in Gains, q \in Qs, f \in Freqs, r \in Rates, t \in FilterTypes,
       pg \in PassbandGains, n \in ChannelCounts :
        IIRfilter_init(g, q, f, r, t, pg, n)

FilterNext ==
    \/ Construct
    \/ \E v \in Gains : set_G(v)
    \/ \E v \in Qs : set_Q(v)
    \/ \E v \in Freqs : set_fc(v)
    \/ \E v \in Rates : set_rate(v)
    \/ \E v \in FilterTypes : set_filter_type(v)
    \/ \E n \in ChannelCounts : set_n_channels(n)
    \/ /\ fcalls < MaxFilterCalls            \* one-sample blocks; StreamNext feeds longer ones
       /\ \E data \in Blocks(n_channels, 1) : apply_filter(data)

\* A filter that __init__ has built, fed block after block.
StreamInit ==
    \E g \in Gains, q \in Qs, f \in Freqs, r \in Rates \ {0}, t \in KnownTypes,
       pg \in PassbandGains, n \in ChannelCounts :
        LET res == generate_coefficients(g, q, f, r, t)
        IN /\ G = g /\ Q = q /\ fc = f /\ rate = r /\ filter_type = t
           /\ b = res.b /\ a = res.a
           /\ n_channels = n /\ zi = reset_state(n, res.b, res.a) /\ zi0 = zi
           /\ passband_gain = pg
           /\ attrs = AllAttrs /\ fpc = "ok" /\ ferr = "none"
           /\ fop = "__init__" /\ fcalls = 0 /\ fed = <<>> /\ outp = <<>>

StreamNext ==
    \E data \in Blocks(n_channels, MaxBlock) :
        /\ Len(fed) + Len(data) <= MaxFed
        /\ apply_filter(data)

(***************************************************************************)
(* ProcessorList (processor_list.py) and the Processor capability          *)
(* (processors/*.py). A processor is known by its name; the buffer a       *)
(* processor returns is the buffer it was given with the processor's name  *)
(* appended, so a buffer records which processors it went through, in      *)
(* which order.                                                            *)
(***************************************************************************)
\* ProcessorList.add
add(list, p) == Append(list, p)
\* ProcessorList.get_all
get_all(list) == list
\* ProcessorList.shuffle: the orders it may leave
shuffle(list) ==
    {l \in [1..Len(list) -> {list[i] : i \in 1..Len(list)}] :
        \A i \in 1..Len(list) : \E j \in 1..Len(list) : l[j] = list[i]}
\* Processor.process
Processor_process(p, buf) == Append(buf, p)

Calls(procs, method) == [i \in 1..Len(procs) |-> <<procs[i], method>>]

RECURSIVE Thread(_, _)
\* for processor in procs: buf = processor.process(buf)
Thread(procs, buf) ==
    IF procs = <<>> THEN buf
    ELSE Thread(Tail(procs), Processor_process(Head(procs), buf))

Methods == {"process", "randomize", "reset"}
ChannelProcessors ==
    {"pre-gain", "polarity-inverter", "eq", "compressor", "post-gain", "panner"}
\* ch_n after the calls in log
Counted(n, log) ==
    [p \in DOMAIN n |-> [m \in Methods |->
        n[p][m] + Cardinality({i \in 1..Len(log) : log[i] = <<p, m>>})]]

ChannelInputs == {<<"x">>, <<"y">>}

(***************************************************************************)
(* Channel operations.                                                     *)
(***************************************************************************)
\* Channel.__init__
ChannelInit ==
    /\ pre_processors = add(add(<<>>, "pre-gain"), "polarity-inverter")
    /\ processors = add(add(<<>>, "eq"), "compressor")
    /\ post_processors = add(add(<<>>, "post-gain"), "panner")
    /\ ch_calls = <<>> /\ ch_out = <<>>
    /\ ch_n = [p \in ChannelProcessors |-> [m \in Methods |-> 0]]
    /\ cop = <<"__init__">> /\ ccalls = 0

\* A get_all_processors that puts the core chain first.
get_all_processors_core_first(pre, core, post) ==
    get_all(core) \o get_all(pre) \o get_all(post)

\* Channel.get_all_processors
get_all_processors(pre, core, post) == get_all(pre) \o get_all(core) \o get_all(post)

\* Channel.process
Channel_process(ch_buffer) ==
    /\ ccalls < MaxChannelCalls
    /\ LET all == get_all_processors(pre_processors, processors, post_processors)
       IN /\ ch_calls' = Calls(all, "process")
          /\ ch_out' = Thread(all, ch_buffer)
    /\ ch_n' = Counted(ch_n, ch_calls')
    /\ cop' = <<"process", ch_buffer>> /\ ccalls' = ccalls + 1
    /\ UNCHANGED <<pre_processors, processors, post_processors>>
    /\ UNCHANGED <<filterVars, busVars>>

\* A reset that walks all three chains.
Channel_reset_all ==
    /\ ccalls < MaxChannelCalls
    /\ ch_calls' = Calls(get_all_processors(pre_processors, processors, post_processors),
                         "reset")
    /\ ch_n' = Counted(ch_n, ch_calls')
    /\ cop' = <<"reset">> /\ ccalls' = ccalls + 1
    /\ UNCHANGED <<pre_processors, processors, post_processors, ch_out>>
    /\ UNCHANGED <<filterVars, busVars>>

\* Channel.reset
Channel_reset ==
    /\ ccalls < MaxChannelCalls
    /\ ch_calls' = Calls(get_all(processors), "reset")
    /\ ch_n' = Counted(ch_n, ch_calls')
    /\ cop' = <<"reset">> /\ ccalls' = ccalls + 1
    /\ UNCHANGED <<pre_processors, processors, post_processors, ch_out>>
    /\ UNCHANGED <<filterVars, busVars>>

\* A randomize whose shuffle also reorders the pre chain.
Channel_randomize_shuffling_pre(do_shuffle) ==
    /\ ccalls < MaxChannelCalls
    /\ ch_calls' = Calls(get_all_processors(pre_processors, processors, post_processors),
                         "randomize")
    /\ ch_n' = Counted(ch_n, ch_calls')
    /\ IF do_shuffle
       THEN /\ processors' \in shuffle(processors)
            /\ pre_processors' \in shuffle(pre_processors)
       ELSE UNCHANGED <<processors, pre_processors>>
    /\ cop' = <<"randomize", do_shuffle>> /\ ccalls' = ccalls + 1
    /\ UNCHANGED <<post_processors, ch_out>>
    /\ UNCHANGED <<filterVars, busVars>>

\* Channel.randomize
Channel_randomize(do_shuffle) ==
    /\ ccalls < MaxChannelCalls
    /\ ch_calls' = Calls(get_all_processors(pre_processors, processors, post_processors),
                         "randomize")
    /\ ch_n' = Counted(ch_n, ch_calls')
    /\ IF do_shuffle
       THEN processors' \in shuffle(processors)
       ELSE UNCHANGED processors
    /\ cop' = <<"randomize", do_shuffle>> /\ ccalls' = ccalls + 1
    /\ UNCHANGED <<pre_processors, post_processors, ch_out>>
    /\ UNCHANGED <<filterVars, busVars>>

ChannelNext ==
    \/ \E ch_buffer \in ChannelInputs : Channel_process(ch_buffer)
    \/ Channel_reset
    \/ \E do_shuffle \in BOOLEAN : Channel_randomize(do_shuffle)

(***************************************************************************)
(* Bus operations.                                                         *)
(***************************************************************************)
BusInputCounts == 1..MaxInputs
\* The sends argument: <<>> stands for None and for an empty list, which
\* "not sends" does not tell apart; a list given is [1, 0, ..., 0] of some length.
SendsArgs == {<<>>} \cup {[i \in 1..m |-> IF i = 1 THEN Scale ELSE 0] : m \in 1..MaxInputs}
\* np.random.rand draws from [0, 1)
RandValues == {0, Scale - 1}
\* A rand that draws one value too many.
rand_one_more(n) == [1..(n + 1) -> RandValues]
\* np.random.rand(n)
rand(n) == [1..n -> RandValues]
\* np.ones(n), np.zeros(n)
ones(n) == [i \in 1..n |-> Scale]
zeros(n) == [i \in 1..n |-> 0]

\* Blocks of samples x channels x inputs.
BusSampleCounts == {1}
BusChannelCounts == {1, 2}
BusBlocks ==
    UNION {[1..s -> [1..c -> [1..i -> Amplitudes]]] :
             <<s, c, i>> \in BusSampleCounts \X BusChannelCounts \X BusInputCounts}

RECURSIVE Sum(_)
Sum(xs) == IF xs = <<>> THEN 0 ELSE Head(xs) + Sum(Tail(xs))

\* Whether numpy can broadcast a last axis of i entries against k sends.
Broadcastable(i, k) == i = k \/ i = 1 \/ k = 1

\* A mixdown that sums the inputs without weighting them.
mixdown_unweighted(block, sds) ==
    [s \in 1..Len(block) |-> [c \in 1..Len(block[s]) |-> Sum(block[s][c])]]

\* np.sum(block * sends, axis=2), for a broadcastable pair
mixdown(block, sds) ==
    LET i == Len(block[1][1])
        k == Len(sds)
    IN [s \in 1..Len(block) |-> [c \in 1..Len(block[s]) |->
          Sum([j \in 1..Max(i, k) |->
                 Mul(block[s][c][IF i = 1 THEN 1 ELSE j],
                     sds[IF k = 1 THEN 1 ELSE j])])]]

BusInit ==
    /\ bpc = "new"
    /\ n_inputs = 0 /\ master = FALSE /\ sends = <<>> /\ bus_processors = <<>>
    /\ sends_arg = <<>>
    /\ bus_calls = <<>> /\ bus_block = <<>> /\ bus_buffer = <<>> /\ bus_out = <<>>
    /\ berr = "none" /\ bop = <<"none">> /\ bcalls = 0

\* Bus.__init__
Bus_init(n, sds, m) ==
    /\ bpc = "new"
    /\ n_inputs' = n /\ master' = m
    /\ sends' = IF sds = <<>> THEN (IF m THEN ones(n) ELSE zeros(n)) ELSE sds
    /\ bus_processors' = IF m THEN add(add(<<>>, "master-eq"), "master-compressor")
                              ELSE <<>>
    /\ sends_arg' = sds
    /\ bpc' = "ok" /\ bop' = <<"__init__">>
    /\ UNCHANGED <<bus_calls, bus_block, bus_buffer, bus_out, berr, bcalls>>
    /\ UNCHANGED <<filterVars, chanVars>>

\* Bus.process
Bus_process(block) ==
    /\ bpc = "ok" /\ bcalls < MaxBusCalls
    /\ bus_block' = block
    /\ IF Broadcastable(Len(block[1][1]), Len(sends))
       THEN /\ bus_buffer' = mixdown(block, sends)
            /\ bus_calls' = Calls(get_all(bus_processors), "process")
            /\ bus_out' = [buffer |-> bus_buffer',
                           through |-> Thread(get_all(bus_processors), <<>>)]
            /\ berr' = "none"
       ELSE /\ berr' = "ValueError"
            /\ bus_calls' = <<>>
            /\ UNCHANGED <<bus_buffer, bus_out>>
    /\ bop' = <<"process">> /\ bcalls' = bcalls + 1
    /\ UNCHANGED <<bpc, n_inputs, master, sends, bus_processors, sends_arg>>
    /\ UNCHANGED <<filterVars, chanVars>>

\* A randomize that redraws the sends of a master bus too.
Bus_randomize_redrawing_master(do_shuffle) ==
    /\ bpc = "ok" /\ bcalls < MaxBusCalls
    /\ bus_calls' = Calls(get_all(bus_processors), "randomize")
    /\ sends' \in rand(n_inputs)
    /\ IF do_shuffle
       THEN bus_processors' \in shuffle(bus_processors)
       ELSE UNCHANGED bus_processors
    /\ bop' = <<"randomize", do_shuffle>> /\ bcalls' = bcalls + 1 /\ berr' = "none"
    /\ UNCHANGED <<bpc, n_inputs, master, sends_arg, bus_block, bus_buffer, bus_out>>
    /\ UNCHANGED <<filterVars, chanVars>>

\* Bus.randomize
Bus_randomize(do_shuffle) ==
    /\ bpc = "ok" /\ bcalls < MaxBusCalls
    /\ bus_calls' = Calls(get_all(bus_processors), "randomize")
    /\ IF ~master
       THEN sends' \in rand(n_inputs)
       ELSE UNCHANGED sends
    /\ IF do_shuffle
       THEN bus_processors' \in shuffle(bus_processors)
       ELSE UNCHANGED bus_processors
    /\ bop' = <<"randomize", do_shuffle>> /\ bcalls' = bcalls + 1 /\ berr' = "none"
    /\ UNCHANGED <<bpc, n_inputs, master, sends_arg, bus_block, bus_buffer, bus_out>>
    /\ UNCHANGED <<filterVars, chanVars>>

BusNext ==
    \/ \E n \in BusInputCounts, sds \in SendsArgs, m \in BOOLEAN : Bus_init(n, sds, m)
    \/ \E block \in BusBlocks : Bus_process(block)
    \/ \E do_shuffle \in BOOLEAN : Bus_randomize(do_shuffle)

(***************************************************************************)
(* Specifications. The three classes share no state, so each object is     *)
(* explored on its own while the other two stay as created: FilterSpec,    *)
(* ChannelSpec and BusSpec are the three parts of Spec. StreamSpec starts  *)
(* from any filter __init__ can build and feeds it longer blocks.          *)
(***************************************************************************)
Init == FilterInit /\ ChannelInit /\ BusInit

Next ==
    \/ ChannelInit /\ BusInit /\ FilterNext
    \/ FilterInit /\ BusInit /\ ChannelNext
    \/ FilterInit /\ ChannelInit /\ BusNext

Spec == Init /\ [][Next]_vars

FilterSpec == Init /\ [][FilterNext]_vars
StreamStart == StreamInit /\ ChannelInit /\ BusInit
StreamSpec == StreamStart /\ [][StreamNext]_vars
ChannelSpec == Init /\ [][ChannelNext]_vars
BusSpec == Init /\ [][BusNext]_vars

(***************************************************************************)
(* Properties of the IIRfilter.                                            *)
(***************************************************************************)
\* A step of FilterSpec that ran generate_coefficients: __init__ or one of the
\* five parameter setters.
InitStep == fpc = "new" /\ fpc' # "new"
ParamSetterStep == fcalls' = fcalls + 1 /\ fop' \in ParamAttrs
Nonzero(m) == \E k \in DOMAIN m : \E c \in DOMAIN m[k] : m[k][c] # 0

\* C1: after construction and after any assignments to G, Q, fc, rate and
\* filter_type, whatever the values, b and a are the vectors generate_coefficients
\* derives from the current (G, Q, fc, rate, filter_type).
C1_CoefficientsFollowParameters ==
    fpc = "ok" =>
        LET res == generate_coefficients(G, Q, fc, rate, filter_type)
        IN res.err = "none" /\ b = res.b /\ a = res.a

\* np.zeros of the shape the channel count n gives, rows entries per channel
ZeroMemory(n, rows) ==
    [ndim |-> IF n = 1 THEN 1 ELSE 2, v |-> [k \in 1..rows |-> [c \in 1..n |-> 0]]]

\* C2: assigning G, Q, fc, rate or filter_type leaves zi (values and shape)
\* unchanged; assigning n_channels replaces zi by zeros of the shape of the new
\* channel count, max(len(a), len(b)) - 1 entries per channel; construction with
\* n_channels = N leaves zi all zero at that shape.
C2_MemoryFrame ==
    [][/\ ParamSetterStep => zi' = zi
       /\ (fcalls' = fcalls + 1 /\ fop' = "n_channels") =>
              zi' = ZeroMemory(n_channels', Max(Len(a'), Len(b')) - 1)
       /\ (InitStep /\ fpc' = "ok") =>
              zi' = ZeroMemory(n_channels', Max(Len(a'), Len(b')) - 1)]_vars

\* A parameter setter has just run on a filter whose memory is not zero.
C2_Witness == fop \in ParamAttrs /\ fcalls = 2 /\ Nonzero(zi.v)

\* C3: with no parameter change in between, the outputs of consecutive
\* apply_filter calls, concatenated, are the output of one call on the
\* concatenated blocks from the same starting state, and the stored state is the
\* state that one call would leave.
C3_BlockContinuity ==
    fpc = "ok" =>
        LET whole == lfilter(b, a, fed, zi0.v)
        IN /\ outp = Scaled(passband_gain, whole.y)
           /\ zi.v = whole.zf

\* Three samples went through in at least two calls and left a memory that
\* differs from the starting one.
C3_Witness ==
    /\ fop = "apply_filter" /\ fcalls >= 2 /\ Len(fed) >= 3
    /\ zi # zi0 /\ Nonzero(outp)

\* What C4 says of a step that ran generate_coefficients, with valueError the
\* condition under which the step is said to raise ValueError.
C4Step(valueError) ==
    (InitStep \/ ParamSetterStep) =>
        /\ ferr' = "ValueError" <=> valueError
        /\ ferr' # "none" => b' = b /\ a' = a
        /\ fpc' = "failed" =>
               attrs' \cap {"b", "a", "n_channels", "zi", "passband_gain"} = {}

PreChain == <<"pre-gain", "polarity-inverter">>
CoreMembers == {"eq", "compressor"}
PostChain == <<"post-gain", "panner">>
ChannelStep(name) == ccalls' = ccalls + 1 /\ cop'[1] = name
Members(list) == {list[i] : i \in 1..Len(list)}
SameMembers(l1, l2) == Len(l1) = Len(l2) /\ Members(l1) = Members(l2)
NumCalls(log, p) == Cardinality({i \in 1..Len(log) : log[i][1] = p})

\* C5: process applies every processor of the three chains exactly once, each
\* fed the previous one's output, in the order pre chain, core chain in its
\* current order, post chain, after any randomize, reset and process calls.
C5_ProcessOrder ==
    cop[1] = "process" =>
        LET order == PreChain \o processors \o PostChain
        IN /\ ch_calls = [i \in 1..Len(order) |-> <<order[i], "process">>]
           /\ ch_out = cop[2] \o order
           /\ \A p \in ChannelProcessors : NumCalls(ch_calls, p) = 1

\* process ran on a channel whose core chain had been shuffled into the
\* order compressor, eq.
C5_Witness ==
    /\ cop[1] = "process" /\ processors = <<"compressor", "eq">>
    /\ ch_out = <<"x", "pre-gain", "polarity-inverter", "compressor", "eq",
                  "post-gain", "panner">>

\* C6: randomize(shuffle) calls randomize() once on every processor, pre then
\* core then post; with shuffle it then permutes the core chain only, without it
\* no order changes; the pre chain stays (pre-gain, polarity-inverter), the post
\* chain (post-gain, panner), and the core chain holds exactly eq and compressor.
C6_RandomizeFrame ==
    /\ [](/\ pre_processors = PreChain /\ post_processors = PostChain
          /\ Len(processors) = 2 /\ Members(processors) = CoreMembers)
    /\ [][ChannelStep("randomize") =>
            /\ ch_calls' = [i \in 1..6 |->
                              <<(pre_processors \o processors \o post_processors)[i],
                                "randomize">>]
            /\ \A p \in ChannelProcessors :
                   /\ ch_n'[p]["randomize"] = ch_n[p]["randomize"] + 1
                   /\ ch_n'[p]["process"] = ch_n[p]["process"]
                   /\ ch_n'[p]["reset"] = ch_n[p]["reset"]
            /\ pre_processors' = pre_processors
            /\ post_processors' = post_processors
            /\ IF cop'[2] THEN SameMembers(processors', processors)
                          ELSE processors' = processors]_vars

\* randomize(shuffle=True) has put the compressor before the equaliser.
C6_Witness ==
    /\ cop = <<"randomize", TRUE>> /\ processors = <<"compressor", "eq">>
    /\ ch_n["panner"]["randomize"] = 2

\* C7: reset calls reset() on each processor of the core chain and on no
\* processor of the pre or post chain, and changes no chain.
C7_ResetScope ==
    [][ChannelStep("reset") =>
        /\ ch_calls' = [i \in 1..Len(processors) |-> <<processors[i], "reset">>]
        /\ \A p \in ChannelProcessors :
               /\ ch_n'[p]["reset"] =
                      ch_n[p]["reset"] + (IF p \in CoreMembers THEN 1 ELSE 0)
               /\ ch_n'[p]["process"] = ch_n[p]["process"]
               /\ ch_n'[p]["randomize"] = ch_n[p]["randomize"]
        /\ pre_processors' = pre_processors
        /\ processors' = processors
        /\ post_processors' = post_processors]_vars

\* reset ran after a process: the core processors were reset, the pre-gain,
\* which processed a block, was not.
C7_Witness ==
    /\ cop = <<"reset">>
    /\ ch_n["eq"]["reset"] = 1 /\ ch_n["compressor"]["reset"] = 1
    /\ ch_n["pre-gain"]["process"] = 1 /\ ch_n["pre-gain"]["reset"] = 0

(***************************************************************************)
(* Properties of the Bus.                                                  *)
(***************************************************************************)
BusStep(name) == bcalls' = bcalls + 1 /\ bop'[1] = name

\* C8 as stated: len(sends) == n_inputs after construction and after any process
\* and randomize calls, whether sends was defaulted or supplied by the caller.
C8_SendsLength == bpc = "ok" => Len(sends) = n_inputs

\* C8 as amended: len(sends) == n_inputs after construction and after any
\* process and randomize calls, when sends was defaulted (all ones for a master
\* bus, all zeros for a non-master bus) or supplied with n_inputs elements.
C8_SendsLengthWhenWellFormed ==
    (bpc = "ok" /\ (sends_arg = <<>> \/ Len(sends_arg) = n_inputs)) =>
        /\ Len(sends) = n_inputs
        /\ (sends_arg = <<>> /\ bop[1] = "__init__") =>
               \A i \in 1..n_inputs : sends[i] = IF master THEN Scale ELSE 0

\* A non-master bus built with two inputs and two sends has been randomized.
C8_Witness ==
    /\ bpc = "ok" /\ ~master /\ n_inputs = 2 /\ Len(sends_arg) = 2
    /\ bop[1] = "randomize" /\ sends # sends_arg /\ Len(sends) = 2

\* C9: randomize never changes the sends of a master bus, so a master bus built
\* without sends keeps n_inputs ones; on a non-master bus randomize replaces
\* sends by n_inputs values in [0, 1); every processor of the chain is
\* randomized, and the chain order is permuted only when shuffle is true.
C9_RandomizeSends ==
    /\ []((bpc = "ok" /\ master /\ sends_arg = <<>>) =>
             (Len(sends) = n_inputs /\ \A i \in 1..n_inputs : sends[i] = Scale))
    /\ [][BusStep("randomize") =>
            /\ master => sends' = sends
            /\ ~master => /\ Len(sends') = n_inputs
                          /\ \A i \in 1..n_inputs : 0 <= sends'[i] /\ sends'[i] < Scale
            /\ bus_calls' = [i \in 1..Len(bus_processors) |->
                               <<bus_processors[i], "randomize">>]
            /\ IF bop'[2] THEN SameMembers(bus_processors', bus_processors)
                          ELSE bus_processors' = bus_processors]_vars

\* A master bus of two inputs, randomized with shuffle after another operation,
\* still sends ones; its chain has been reordered.
C9_Witness ==
    /\ master /\ sends_arg = <<>> /\ n_inputs = 2 /\ bcalls >= 2
    /\ bop = <<"randomize", TRUE>>
    /\ bus_processors = <<"master-compressor", "master-eq">>
    /\ sends = <<Scale, Scale>>

RECURSIVE WeightedSum(_, _, _)
\* sum over the inputs j <= i of xs[j] * ws[j]
WeightedSum(xs, ws, i) ==
    IF i = 0 THEN 0 ELSE WeightedSum(xs, ws, i - 1) + Mul(xs[i], ws[i])

\* C10: process on a samples x channels x inputs block forms the buffer whose
\* entry [s,c] is the sum over the inputs i of block[s,c,i] * sends[i], then
\* passes it through the bus's processors in the chain's current order and
\* returns the last output; sends and the chain order are unchanged. With
\* sends = [1,0,...,0] the buffer entering the chain is block[:,:,0], which a
\* bus with an empty chain returns.
C10_Mixdown ==
    [][BusStep("process") =>
        /\ sends' = sends /\ bus_processors' = bus_processors
        /\ Len(bus_block'[1][1]) = Len(sends) =>
             LET inputs == Len(sends)
                 block == bus_block'
             IN /\ berr' = "none"
                /\ bus_buffer' = [s \in 1..Len(block) |-> [c \in 1..Len(block[s]) |->
                                    WeightedSum(block[s][c], sends, inputs)]]
                /\ bus_calls' = [i \in 1..Len(bus_processors) |->
                                   <<bus_processors[i], "process">>]
                /\ bus_out' = [buffer |-> bus_buffer', through |-> bus_processors]
                /\ (sends[1] = Scale /\ \A i \in 2..inputs : sends[i] = 0) =>
                       bus_buffer' = [s \in 1..Len(block) |->
                                        [c \in 1..Len(block[s]) |-> block[s][c][1]]]]_vars

\* A bus with sends = [1, 0] and an empty chain returned the first input of a
\* block whose second input was not silent.
C10_Witness ==
    /\ bop[1] = "process" /\ berr = "none"
    /\ sends = <<Scale, 0>> /\ bus_processors = <<>>
    /\ bus_block = << << <<Scale, Scale>>, <<0, Scale>> >> >>
    /\ bus_out = [buffer |-> << <<Scale, 0>> >>, through |-> <<>>]

====
